---- MODULE Spec2Model ----
(***************************************************************************)
(* Consultation lifecycle and reschedule workflow of                       *)
(* src/consultations/models.py, as a state machine over one consultation   *)
(* row and its reschedule_history rows.                                    *)
(*                                                                         *)
(* Time is counted in clock units of 1/HourUnits hour.  A nullable field   *)
(* holds None (the empty tuple) or Some(v) (a one-element tuple).          *)
(***************************************************************************)
EXTENDS Integers, Sequences, FiniteSets, TLC

VARIABLES
    consultation,        \* the Consultation row (all fields the operations touch)
    reschedule_history,  \* ConsultationReschedule rows of the consultation, oldest first
    now,                 \* timezone.now()
    ret,                 \* the last call: operation, arguments, outcome, status before it
    g_gate,              \* observer: 0 none, 1 requested, 2 approved since the last applied reschedule
    g_applied,           \* observer: number of apply_reschedule calls that returned True
    g_requester,         \* observer: actor argument of the last successful request_reschedule
    g_approved_for,      \* observer: g_requester at the last successful approve_reschedule
    g_fresh,             \* observer: an approval was given after the last successful request and not yet applied
    consultation_ids,    \* primary keys of the stored Consultation rows
    receipt_numbers,     \* receipt_number of the stored ConsultationReceipt rows, in insertion order
    saved,               \* the last save(): the model class, the identifier it got, how it ended
    phonepe              \* the last PhonePeService call: method, arguments, what it returned

vars == <<consultation, reschedule_history, now, ret,
          g_gate, g_applied, g_requester, g_approved_for, g_fresh,
          consultation_ids, receipt_numbers, saved, phonepe>>

----------------------------------------------------------------------------
(* Bounds of the model *)

MaxNow == 3
DayUnits == 2
MaxHistory == 2
MaxClock == 6
MaxRows == 3
MaxReceipts == 2
HourUnits == 2

(* Program constants *)

GracePeriodHours == 1
ConsultationPad == 3
ReceiptPad == 6

None == << >>
Some(v) == <<v>>

Users == {"admin", "patient"}
Staff == {Some("admin")}
Actors == {Some(u) : u \in Users} \cup {None}
CancelActors == {Some("admin")}
CancelReasons == {"late"}
RequestReasons == {"late"}
ApplyReasons == {"clash"}
Dates == {0, 1}
Times == 0..(DayUnits - 1)

STATUS_CHOICES ==
    {"scheduled", "patient_checked_in", "ready_for_consultation", "in_progress",
     "completed", "cancelled", "no_show", "rescheduled", "overdue"}

----------------------------------------------------------------------------
(* Derived properties of a consultation c at time t *)

scheduled_datetime(c) == c.scheduled_date * DayUnits + c.scheduled_time

is_upcoming(c, t) == scheduled_datetime(c) > t /\ c.status = "scheduled"

(* An overdue test that counts the scheduled instant itself as past *)
is_overdue_inclusive(c, t) ==
    IF c.status \in {"completed", "cancelled", "rescheduled"}
    THEN FALSE
    ELSE scheduled_datetime(c) <= t

is_overdue(c, t) ==
    IF c.status \in {"completed", "cancelled", "rescheduled"}
    THEN FALSE
    ELSE scheduled_datetime(c) < t

(* A grace period that ends at exactly one hour instead of after it *)
is_eligible_for_reschedule_inclusive(c, t) ==
    IF c.status \in {"completed", "cancelled"}
    THEN FALSE
    ELSE scheduled_datetime(c) <= t - GracePeriodHours * HourUnits

is_eligible_for_reschedule(c, t) ==
    IF c.status \in {"completed", "cancelled"}
    THEN FALSE
    ELSE scheduled_datetime(c) < t - GracePeriodHours * HourUnits

(* A number of hours, as the fraction num/den: total_seconds() / 3600 of   *)
(* a duration of num clock units is num/HourUnits hours.                   *)
Hours(num, den) == [num |-> num, den |-> den]

hours_overdue(c, t) ==
    IF ~is_overdue(c, t)
    THEN Hours(0, 1)
    ELSE Hours(t - scheduled_datetime(c), HourUnits)

(* A check-in test that forgets the last status of the list *)
is_checked_in_without_completed(c) ==
    c.status \in {"patient_checked_in", "ready_for_consultation", "in_progress"}

is_checked_in(c) ==
    c.status \in {"patient_checked_in", "ready_for_consultation", "in_progress", "completed"}

is_ready_for_consultation(c) ==
    c.status \in {"ready_for_consultation", "in_progress", "completed"}

----------------------------------------------------------------------------
(* The outcome of a call, as its caller observes it *)

Call(op, by, date, time, reason, result) ==
    [op |-> op, by |-> by, date |-> date, time |-> time, reason |-> reason,
     result |-> result, was |-> consultation.status, value |-> None]

(* A call that failed: only the operation and how it failed are observed *)
Failed(op, result) == Call(op, None, 0, 0, "", result)

NoCall ==
    [op |-> "create", by |-> None, date |-> 0, time |-> 0, reason |-> "",
     result |-> "True", was |-> "scheduled", value |-> None]

NewConsultation(d, t) ==
    [status |-> "scheduled",
     scheduled_date |-> d,
     scheduled_time |-> t,
     actual_start_time |-> None,
     actual_end_time |-> None,
     checked_in_at |-> None,
     checked_in_by |-> None,
     ready_for_consultation_at |-> None,
     ready_marked_by |-> None,
     cancelled_by |-> None,
     cancellation_reason |-> "",
     cancelled_at |-> None,
     reschedule_requested |-> FALSE,
     reschedule_requested_at |-> None,
     reschedule_requested_by |-> None,
     reschedule_reason |-> "",
     reschedule_approved |-> FALSE,
     reschedule_approved_by |-> None,
     reschedule_approved_at |-> None,
     rescheduled_at |-> None,
     is_paid |-> FALSE,
     payment_method |-> "",
     payment_status |-> "pending"]

(* The other components, at rest *)

NoSave == [model |-> "none", id |-> << >>, generated |-> FALSE, result |-> "none"]

NoRows ==
    /\ consultation_ids = {}
    /\ receipt_numbers = << >>
    /\ saved = NoSave

NoPhonePeCall == phonepe = [op |-> "none"]

Stored == <<consultation_ids, receipt_numbers, saved>>

Init ==
    /\ \E d \in Dates, t \in Times : consultation = NewConsultation(d, t)
    /\ reschedule_history = << >>
    /\ now = 0
    /\ ret = NoCall
    /\ g_gate = 0
    /\ g_applied = 0
    /\ g_requester = None
    /\ g_approved_for = None
    /\ g_fresh = FALSE
    /\ NoRows
    /\ NoPhonePeCall

Tick ==
    /\ now < MaxNow
    /\ now' = now + 1
    /\ UNCHANGED <<consultation, reschedule_history, ret,
                   g_gate, g_applied, g_requester, g_approved_for, g_fresh>>
    /\ UNCHANGED <<Stored, phonepe>>

(* Field updates made by each operation *)

CheckedIn(c, checked_in_by, t) ==
    [c EXCEPT !.status = "patient_checked_in",
              !.checked_in_at = Some(t),
              !.checked_in_by = checked_in_by]

(* A ready mark that moves the status and forgets the timestamp *)
MarkedReady_without_timestamp(c, marked_by, t) ==
    [c EXCEPT !.status = "ready_for_consultation",
              !.ready_marked_by = marked_by]

MarkedReady(c, marked_by, t) ==
    [c EXCEPT !.status = "ready_for_consultation",
              !.ready_for_consultation_at = Some(t),
              !.ready_marked_by = marked_by]

(* A start that writes the wrong status *)
Started_as_completed(c, t) ==
    [c EXCEPT !.status = "completed",
              !.actual_start_time = Some(t)]

Started(c, t) ==
    [c EXCEPT !.status = "in_progress",
              !.actual_start_time = Some(t)]

(* A request that leaves the status as it was *)
Requested_keeps_status(c, requested_by, reason, t) ==
    [c EXCEPT !.reschedule_requested = TRUE,
              !.reschedule_requested_at = Some(t),
              !.reschedule_requested_by = requested_by,
              !.reschedule_reason = reason]

Requested(c, requested_by, reason, t) ==
    [c EXCEPT !.reschedule_requested = TRUE,
              !.reschedule_requested_at = Some(t),
              !.reschedule_requested_by = requested_by,
              !.reschedule_reason = reason,
              !.status = "overdue"]

Approved(c, approved_by, t) ==
    [c EXCEPT !.reschedule_approved = TRUE,
              !.reschedule_approved_by = approved_by,
              !.reschedule_approved_at = Some(t)]

(* An apply that forgets to clear the request timestamp *)
Rescheduled_keeps_requested_at(c, new_date, new_time, t) ==
    [c EXCEPT !.scheduled_date = new_date,
              !.scheduled_time = new_time,
              !.status = "rescheduled",
              !.reschedule_requested = FALSE,
              !.reschedule_approved = FALSE,
              !.reschedule_approved_at = None,
              !.rescheduled_at = Some(t),
              !.reschedule_reason = ""]

Rescheduled(c, new_date, new_time, t) ==
    [c EXCEPT !.scheduled_date = new_date,
              !.scheduled_time = new_time,
              !.status = "rescheduled",
              !.reschedule_requested = FALSE,
              !.reschedule_approved = FALSE,
              !.reschedule_requested_at = None,
              !.reschedule_approved_at = None,
              !.rescheduled_at = Some(t),
              !.reschedule_reason = ""]

RescheduleRecord(old_date, old_time, new_date, new_time, reason, requested_by) ==
    [old_date |-> old_date, old_time |-> old_time,
     new_date |-> new_date, new_time |-> new_time,
     reason |-> reason, requested_by |-> requested_by]

(* requested_by of ConsultationReschedule is a non-null foreign key: the    *)
(* insert of a row without it is refused by the store.                      *)
CanCreateRecord(r) == r.requested_by # None

Cancelled(c, cancelled_by, reason, t) ==
    [c EXCEPT !.status = "cancelled",
              !.cancelled_by = cancelled_by,
              !.cancellation_reason = reason,
              !.cancelled_at = Some(t)]

Completed(c, t) ==
    [c EXCEPT !.status = "completed",
              !.actual_end_time = Some(t)]

(* Guards of the operations *)

(* A check-in guard that also lets an overdue consultation through *)
MayCheckIn_overdue_too(c) == c.status \in {"scheduled", "overdue"}

MayCheckIn(c) == c.status = "scheduled"

(* A ready guard that forgets the shortcut from 'scheduled' *)
MayMarkReady_checked_in_only(c) == c.status = "patient_checked_in"

MayMarkReady(c) == c.status \in {"scheduled", "patient_checked_in"}

(* A start guard that also lets a consultation start without check-in *)
MayStart_scheduled_too(c) ==
    c.status \in {"scheduled", "ready_for_consultation", "patient_checked_in"}

(* A start guard that waits for the payment *)
MayStart_paid_only(c) ==
    c.status \in {"ready_for_consultation", "patient_checked_in"} /\ c.is_paid

MayStart(c) == c.status \in {"ready_for_consultation", "patient_checked_in"}

(* An approval that does not look for a pending request *)
MayApprove_always(c) == TRUE

MayApprove(c) == c.reschedule_requested

(* An apply that accepts a request that was never approved *)
MayApply_on_request(c) == c.reschedule_requested \/ c.reschedule_approved

MayApply(c) == c.reschedule_approved

(* update_or_create: the consultation keeps a single, overwritten row *)
HistoryAfterCreate_overwrites(h, r) == <<r>>

(* ConsultationReschedule.objects.create: one more row of the history *)
HistoryAfterCreate(h, r) == Append(h, r)

TerminalStatuses == {"completed", "cancelled", "no_show"}

Observers == <<g_gate, g_applied, g_requester, g_approved_for, g_fresh>>

----------------------------------------------------------------------------
(* Operations *)

check_in_patient(checked_in_by) ==
    /\ IF MayCheckIn(consultation)
       THEN /\ consultation' = CheckedIn(consultation, checked_in_by, now)
            /\ ret' = Call("check_in_patient", checked_in_by, 0, 0, "", "True")
       ELSE /\ consultation' = consultation
            /\ ret' = Failed("check_in_patient", "False")
    /\ UNCHANGED <<reschedule_history, now, Observers, Stored, phonepe>>

mark_ready_for_consultation(marked_by) ==
    /\ IF MayMarkReady(consultation)
       THEN /\ consultation' = MarkedReady(consultation, marked_by, now)
            /\ ret' = Call("mark_ready_for_consultation", marked_by, 0, 0, "", "True")
       ELSE /\ consultation' = consultation
            /\ ret' = Failed("mark_ready_for_consultation", "False")
    /\ UNCHANGED <<reschedule_history, now, Observers, Stored, phonepe>>

start_consultation ==
    /\ IF MayStart(consultation)
       THEN /\ consultation' = Started(consultation, now)
            /\ ret' = Call("start_consultation", None, 0, 0, "", "True")
       ELSE /\ consultation' = consultation
            /\ ret' = Failed("start_consultation", "False")
    /\ UNCHANGED <<reschedule_history, now, Observers, Stored, phonepe>>

request_reschedule(requested_by, reason) ==
    /\ IF ~is_eligible_for_reschedule(consultation, now)
       THEN /\ consultation' = consultation
            /\ ret' = Failed("request_reschedule", "ValidationError")
            /\ UNCHANGED <<g_gate, g_requester, g_fresh>>
       ELSE /\ consultation' = Requested(consultation, requested_by, reason, now)
            /\ ret' = Call("request_reschedule", requested_by, 0, 0, reason, "True")
            /\ g_gate' = IF g_gate = 0 THEN 1 ELSE g_gate
            /\ g_requester' = requested_by
            /\ g_fresh' = FALSE
    /\ UNCHANGED <<reschedule_history, now, g_applied, g_approved_for, Stored, phonepe>>

approve_reschedule(approved_by) ==
    /\ IF ~MayApprove(consultation)
       THEN /\ consultation' = consultation
            /\ ret' = Failed("approve_reschedule", "ValidationError")
            /\ UNCHANGED <<g_gate, g_approved_for, g_fresh>>
       ELSE /\ consultation' = Approved(consultation, approved_by, now)
            /\ ret' = Call("approve_reschedule", approved_by, 0, 0, "", "True")
            /\ g_gate' = IF g_gate >= 1 THEN 2 ELSE g_gate
            /\ g_approved_for' = g_requester
            /\ g_fresh' = TRUE
    /\ UNCHANGED <<reschedule_history, now, g_applied, g_requester, Stored, phonepe>>

(* The consultation row is saved before the history row is created, and    *)
(* the two writes are not wrapped in a transaction: when the create is     *)
(* refused, the saved consultation stays as it is.                         *)
apply_reschedule(new_date, new_time, reason) ==
    /\ MayApply(consultation) => Len(reschedule_history) < MaxHistory
    /\ IF ~MayApply(consultation)
       THEN /\ consultation' = consultation
            /\ ret' = Failed("apply_reschedule", "ValidationError")
            /\ UNCHANGED <<reschedule_history, g_gate, g_applied, g_approved_for, g_fresh>>
       ELSE LET record == RescheduleRecord(consultation.scheduled_date,
                                           consultation.scheduled_time,
                                           new_date, new_time, reason,
                                           consultation.reschedule_requested_by)
            IN  /\ consultation' = Rescheduled(consultation, new_date, new_time, now)
                /\ IF CanCreateRecord(record)
                   THEN /\ reschedule_history' = HistoryAfterCreate(reschedule_history, record)
                        /\ ret' = Call("apply_reschedule", None, new_date, new_time, reason, "True")
                        /\ g_gate' = 0
                        /\ g_applied' = g_applied + 1
                        /\ g_approved_for' = None
                        /\ g_fresh' = FALSE
                   ELSE /\ reschedule_history' = reschedule_history
                        /\ ret' = Failed("apply_reschedule", "IntegrityError")
                        /\ UNCHANGED <<g_gate, g_applied, g_approved_for, g_fresh>>
    /\ UNCHANGED <<now, g_requester, Stored, phonepe>>

(* Operations of the lifecycle table whose code is outside the model       *)
(* classes: they set the statuses the guards above read.                   *)

cancel(cancelled_by, reason) ==
    /\ IF consultation.status \notin TerminalStatuses
       THEN /\ consultation' = Cancelled(consultation, cancelled_by, reason, now)
            /\ ret' = Call("cancel", cancelled_by, 0, 0, reason, "True")
       ELSE /\ consultation' = consultation
            /\ ret' = Failed("cancel", "False")
    /\ UNCHANGED <<reschedule_history, now, Observers, Stored, phonepe>>

complete ==
    /\ IF consultation.status = "in_progress"
       THEN /\ consultation' = Completed(consultation, now)
            /\ ret' = Call("complete", None, 0, 0, "", "True")
       ELSE /\ consultation' = consultation
            /\ ret' = Failed("complete", "False")
    /\ UNCHANGED <<reschedule_history, now, Observers, Stored, phonepe>>

mark_no_show ==
    /\ IF consultation.status \notin TerminalStatuses
       THEN /\ consultation' = [consultation EXCEPT !.status = "no_show"]
            /\ ret' = Call("mark_no_show", None, 0, 0, "", "True")
       ELSE /\ consultation' = consultation
            /\ ret' = Failed("mark_no_show", "False")
    /\ UNCHANGED <<reschedule_history, now, Observers, Stored, phonepe>>

Next ==
    \/ Tick
    \/ \E a \in Staff : check_in_patient(a)
    \/ \E a \in Staff : mark_ready_for_consultation(a)
    \/ start_consultation
    \/ \E a \in Actors, r \in RequestReasons : request_reschedule(a, r)
    \/ \E a \in Staff : approve_reschedule(a)
    \/ \E d \in Dates, t \in Times, r \in ApplyReasons : apply_reschedule(d, t, r)
    \/ \E a \in CancelActors, r \in CancelReasons : cancel(a, r)
    \/ complete
    \/ mark_no_show

Spec == Init /\ [][Next]_vars

----------------------------------------------------------------------------
(* The time-dependent properties, read on a consultation in any status at  *)
(* any time of the clock.                                                  *)

Read(name, v) == [Call(name, None, 0, 0, "", "read") EXCEPT !.value = Some(v)]

AnyConsultation ==
    {[NewConsultation(d, t) EXCEPT !.status = s] :
        d \in Dates, t \in Times, s \in STATUS_CHOICES}

InitDerived ==
    /\ consultation \in AnyConsultation
    /\ now \in 0..MaxClock
    /\ reschedule_history = << >>
    /\ ret = NoCall
    /\ g_gate = 0
    /\ g_applied = 0
    /\ g_requester = None
    /\ g_approved_for = None
    /\ g_fresh = FALSE
    /\ NoRows
    /\ NoPhonePeCall

ReadOnly ==
    UNCHANGED <<consultation, reschedule_history, now, Observers, Stored, phonepe>>

read_is_upcoming ==
    /\ ret' = Read("is_upcoming", is_upcoming(consultation, now))
    /\ ReadOnly

read_is_overdue ==
    /\ ret' = Read("is_overdue", is_overdue(consultation, now))
    /\ ReadOnly

read_is_eligible_for_reschedule ==
    /\ ret' = Read("is_eligible_for_reschedule", is_eligible_for_reschedule(consultation, now))
    /\ ReadOnly

read_hours_overdue ==
    /\ ret' = Read("hours_overdue", hours_overdue(consultation, now))
    /\ ReadOnly

NextDerived ==
    \/ read_is_upcoming
    \/ read_is_overdue
    \/ read_is_eligible_for_reschedule
    \/ read_hours_overdue

SpecDerived == InitDerived /\ [][NextDerived]_vars

----------------------------------------------------------------------------
(* Identifier generation in Consultation.save and ConsultationReceipt.save. *)
(* An identifier is a string, modelled as a sequence of characters.         *)

(* The characters used, in code-point order: digits before capital letters *)
CharOrder == <<"0", "1", "2", "3", "4", "5", "6", "7", "8", "9",
               "C", "N", "O", "P", "R", "X">>

DigitChars == <<"0", "1", "2", "3", "4", "5", "6", "7", "8", "9">>

Code(ch) == CHOOSE i \in 1..Len(CharOrder) : CharOrder[i] = ch

IsDigit(ch) == \E i \in 1..Len(DigitChars) : DigitChars[i] = ch

DigitValue(ch) == (CHOOSE i \in 1..Len(DigitChars) : DigitChars[i] = ch) - 1

(* String comparison: character by character, a proper prefix first *)
RECURSIVE LexLess(_, _)
LexLess(a, b) ==
    IF b = << >> THEN FALSE
    ELSE IF a = << >> THEN TRUE
    ELSE IF Head(a) = Head(b) THEN LexLess(Tail(a), Tail(b))
    ELSE Code(Head(a)) < Code(Head(b))

(* order_by(field).last() over strings *)
LastByOrder(ids) == CHOOSE x \in ids : \A y \in ids \ {x} : LexLess(y, x)

startswith(id, prefix) ==
    /\ Len(id) >= Len(prefix)
    /\ SubSeq(id, 1, Len(prefix)) = prefix

(* id[3:] *)
AfterPrefix(id) == SubSeq(id, 4, Len(id))

RECURSIVE DecimalValue(_)
DecimalValue(digits) ==
    IF digits = << >> THEN 0
    ELSE DecimalValue(SubSeq(digits, 1, Len(digits) - 1)) * 10
         + DigitValue(digits[Len(digits)])

(* int(text): None stands for the ValueError python raises *)
int(text) ==
    IF text = << >> \/ \E i \in 1..Len(text) : ~IsDigit(text[i])
    THEN None
    ELSE Some(DecimalValue(text))

RECURSIVE Decimal(_)
Decimal(n) ==
    IF n < 10 THEN <<DigitChars[n + 1]>>
    ELSE Decimal(n \div 10) \o <<DigitChars[(n % 10) + 1]>>

RECURSIVE ZeroPad(_, _)
ZeroPad(text, width) ==
    IF Len(text) >= width THEN text ELSE ZeroPad(<<"0">> \o text, width)

CON == <<"C", "O", "N">>
RCP == <<"R", "C", "P">>

(* f"CON{new_number:03d}" and f"RCP{new_number:06d}" *)
FormatConsultationId(n) == CON \o ZeroPad(Decimal(n), ConsultationPad)
FormatReceiptNumber(n) == RCP \o ZeroPad(Decimal(n), ReceiptPad)

(* The number a new consultation gets; a ValueError inside the try block   *)
(* is caught and numbering restarts at 1.                                  *)
ConsultationNewNumber(ids) ==
    IF ids = {} THEN 1
    ELSE LET last_consultation == LastByOrder(ids)
             con_consultations == {i \in ids : startswith(i, CON)}
             last_number ==
                 IF startswith(last_consultation, CON)
                 THEN int(AfterPrefix(last_consultation))
                 ELSE IF con_consultations # {}
                 THEN int(AfterPrefix(LastByOrder(con_consultations)))
                 ELSE Some(0)
         IN  IF last_number = None THEN 1 ELSE last_number[1] + 1

(* The number a new receipt gets, or None where int() raises: there is no  *)
(* try block around it. The last receipt is the last one inserted.         *)
ReceiptNewNumber(rows) ==
    IF rows = << >> THEN Some(1)
    ELSE LET last_number == int(AfterPrefix(rows[Len(rows)]))
         IN  IF last_number = None THEN None ELSE Some(last_number[1] + 1)

Saved(model, id, generated, result) ==
    [model |-> model, id |-> id, generated |-> generated, result |-> result]

(* Identifiers a caller sets itself before saving; the empty string is     *)
(* falsy and asks for a generated one.                                     *)
GivenConsultationIds ==
    {<< >>,
     CON \o <<"0", "0", "7">>,
     CON \o <<"9", "9", "9">>,
     CON \o <<"X">>,
     <<"X", "1">>}

GivenReceiptNumbers ==
    {<< >>,
     RCP \o <<"0", "0", "0", "0", "0", "7">>,
     RCP \o <<"X">>}

AtRest ==
    /\ ret = NoCall
    /\ g_gate = 0
    /\ g_applied = 0
    /\ g_requester = None
    /\ g_approved_for = None
    /\ g_fresh = FALSE

InitIds ==
    /\ consultation = NewConsultation(0, 0)
    /\ reschedule_history = << >>
    /\ now = 0
    /\ AtRest
    /\ NoRows
    /\ NoPhonePeCall

(* Consultation.save: id is the primary key, so saving under an id that is *)
(* already stored writes over that row.                                    *)
Consultation_save(given) ==
    LET id == IF given = << >>
              THEN FormatConsultationId(ConsultationNewNumber(consultation_ids))
              ELSE given
    IN  /\ Cardinality(consultation_ids \cup {id}) <= MaxRows
        /\ consultation_ids' = consultation_ids \cup {id}
        /\ saved' = Saved("Consultation", id, given = << >>,
                          IF id \in consultation_ids THEN "updated" ELSE "inserted")
        /\ UNCHANGED <<consultation, reschedule_history, now, ret, Observers,
                       receipt_numbers, phonepe>>

(* ConsultationReceipt.save: receipt_number is unique *)
ConsultationReceipt_save(given) ==
    LET new_number == ReceiptNewNumber(receipt_numbers)
        raised == given = << >> /\ new_number = None
        number == IF given # << >> THEN given
                  ELSE IF raised THEN << >>
                  ELSE FormatReceiptNumber(new_number[1])
        duplicate == \E i \in 1..Len(receipt_numbers) : receipt_numbers[i] = number
    IN  /\ Len(receipt_numbers) < MaxReceipts
        /\ IF raised
           THEN /\ saved' = Saved("ConsultationReceipt", << >>, TRUE, "ValueError")
                /\ UNCHANGED receipt_numbers
           ELSE IF duplicate
           THEN /\ saved' = Saved("ConsultationReceipt", number, given = << >>, "IntegrityError")
                /\ UNCHANGED receipt_numbers
           ELSE /\ saved' = Saved("ConsultationReceipt", number, given = << >>, "inserted")
                /\ receipt_numbers' = Append(receipt_numbers, number)
        /\ UNCHANGED <<consultation, reschedule_history, now, ret, Observers,
                       consultation_ids, phonepe>>

NextIds ==
    \/ \E given \in GivenConsultationIds : Consultation_save(given)
    \/ \E given \in GivenReceiptNumbers : ConsultationReceipt_save(given)

SpecIds == InitIds /\ [][NextIds]_vars

----------------------------------------------------------------------------
(* PhonePeService: webhook signature verification and webhook processing.  *)
(* A python value is a record of its type, its text (for a str) and its    *)
(* items (for a dict: a sequence of <<key, value>> pairs). A text is a     *)
(* sequence of tokens, each token a tuple of strings.                      *)

Str(text) == [type |-> "str", text |-> text, items |-> << >>]
Dict(items) == [type |-> "dict", text |-> << >>, items |-> items]
NoneValue == [type |-> "NoneType", text |-> << >>, items |-> << >>]
ListValue == [type |-> "list", text |-> << >>, items |-> << >>]
IntValue == [type |-> "int", text |-> << >>, items |-> << >>]

Chr(c) == <<c>>

(* How a call ends: with a value, or with an exception of some class *)
Return(v) == [raised |-> "", value |-> v]
Raise(e) == [raised |-> e, value |-> FALSE]

(* The classes an 'except Exception' clause catches *)
ExceptionClasses ==
    {"AttributeError", "TypeError", "binascii.Error", "JSONDecodeError"}

(* self.salt_key, and a key the service does not use *)
salt_key == <<Chr("k")>>
other_key == <<Chr("z")>>

(* hashlib.sha256(message.encode()).hexdigest(): one token that names the  *)
(* message, so that different messages have different digests.             *)
RECURSIVE Spell(_)
Spell(message) ==
    IF message = << >> THEN << >>
    ELSE message[1] \o <<"|">> \o Spell(Tail(message))

Sha256Hex(message) == << <<"sha256">> \o Spell(message) >>

Separator == <<Chr("#"), Chr("#"), Chr("#")>>

(* Where the separator occurs in a text *)
Occurrences(text, sep) ==
    {i \in 1..(Len(text) - Len(sep) + 1) : SubSeq(text, i, i + Len(sep) - 1) = sep}

(* str.split(sep): cut at the leftmost occurrence, go on behind it *)
RECURSIVE Split(_, _)
Split(text, sep) ==
    IF Occurrences(text, sep) = {} THEN <<text>>
    ELSE LET i == CHOOSE k \in Occurrences(text, sep) :
                      \A j \in Occurrences(text, sep) : k <= j
         IN  <<SubSeq(text, 1, i - 1)>>
             \o Split(SubSeq(text, i + Len(sep), Len(text)), sep)

(* json.dumps of a dict or a list, json.loads of a text *)
RECURSIVE DumpItems(_)
DumpItems(items) ==
    IF items = << >> THEN << >>
    ELSE <<Chr(items[1][1]), Chr(items[1][2])>> \o DumpItems(Tail(items))

JsonDumps(v) ==
    IF v.type = "dict"
    THEN <<Chr("{")>> \o DumpItems(v.items) \o <<Chr("}")>>
    ELSE <<Chr("["), Chr("]")>>

JsonLoads(text) ==
    IF text = <<Chr("["), Chr("]")>> THEN Return(ListValue)
    ELSE IF /\ Len(text) >= 2
            /\ Len(text) % 2 = 0
            /\ text[1] = Chr("{")
            /\ text[Len(text)] = Chr("}")
            /\ \A i \in 2..(Len(text) - 1) : Len(text[i]) = 1
    THEN Return(Dict([i \in 1..((Len(text) - 2) \div 2) |->
                         <<text[2 * i][1], text[2 * i + 1][1]>>]))
    ELSE Raise("JSONDecodeError")

(* base64: every token of the text is replaced by its encoded form *)
B64Encode(text) == [i \in 1..Len(text) |-> <<"b64">> \o text[i]]

B64Decode(text) ==
    IF \A i \in 1..Len(text) : Head(text[i]) = "b64"
    THEN Return([i \in 1..Len(text) |-> Tail(text[i])])
    ELSE Raise("binascii.Error")

_encode_base64(payload) == B64Encode(JsonDumps(payload))

_decode_base64(encoded_string) ==
    LET decoded_bytes == B64Decode(encoded_string)
    IN  IF decoded_bytes.raised # "" THEN decoded_bytes
        ELSE JsonLoads(decoded_bytes.value)

(* dict.get(key, '') *)
Get(v, key) ==
    IF \E i \in 1..Len(v.items) : v.items[i][1] = key
    THEN v.items[CHOOSE i \in 1..Len(v.items) : v.items[i][1] = key][2]
    ELSE ""

(* A verification that accepts any header with at least two parts *)
VerifyBody_two_or_more_parts(payload, x_verify_header) ==
    IF x_verify_header.type # "str" THEN Raise("AttributeError")
    ELSE LET parts == Split(x_verify_header.text, Separator)
         IN  IF Len(parts) < 2 THEN Return(FALSE)
             ELSE IF payload.type # "str" THEN Raise("TypeError")
             ELSE Return(Sha256Hex(payload.text \o salt_key) = parts[1])

(* The try block of verify_webhook_signature *)
VerifyBody(payload, x_verify_header) ==
    IF x_verify_header.type # "str" THEN Raise("AttributeError")
    ELSE LET parts == Split(x_verify_header.text, Separator)
         IN  IF Len(parts) # 2 THEN Return(FALSE)
             ELSE IF payload.type # "str" THEN Raise("TypeError")
             ELSE Return(Sha256Hex(payload.text \o salt_key) = parts[1])

(* verify_webhook_signature with its except clause *)
VerifyOutcome(payload, x_verify_header) ==
    LET body == VerifyBody(payload, x_verify_header)
    IN  IF body.raised \in ExceptionClasses THEN Return(FALSE) ELSE body

(* The dictionaries process_webhook returns *)
Failure(error) == [success |-> FALSE, error |-> error, response |-> Dict(<< >>)]

Success(webhook_data) ==
    [success |-> TRUE,
     transaction_id |-> Get(webhook_data, "transactionId"),
     merchant_transaction_id |-> Get(webhook_data, "merchantTransactionId"),
     status |-> Get(webhook_data, "state"),
     code |-> Get(webhook_data, "code"),
     response_code |-> Get(webhook_data, "responseCode"),
     response |-> webhook_data]

(* What the try block of process_webhook did: how it ended, what the       *)
(* signature check said (None: not asked), whether the payload was decoded *)
Did(outcome, verified, decoded) ==
    [raised |-> outcome.raised, value |-> outcome.value,
     verified |-> verified, decoded |-> decoded]

(* webhook_data.get(...) on the structured payload *)
Extract(webhook_data) ==
    IF webhook_data.type # "dict" THEN Raise("AttributeError")
    ELSE Return(Success(webhook_data))

(* A processing that decodes a raw payload without checking its signature *)
ProcessBody_without_verification(webhook_data, x_verify_header) ==
    IF webhook_data.type = "str"
    THEN LET decoded == _decode_base64(webhook_data.text)
         IN  IF decoded.raised # "" THEN Did(decoded, None, TRUE)
             ELSE Did(Extract(decoded.value), None, TRUE)
    ELSE Did(Extract(webhook_data), None, FALSE)

(* A processing that checks the signature of every payload, raw or not *)
ProcessBody_always_verifies(webhook_data, x_verify_header) ==
    IF ~VerifyOutcome(webhook_data, x_verify_header).value
    THEN Did(Return(Failure("Invalid webhook signature")), Some(FALSE), FALSE)
    ELSE IF webhook_data.type = "str"
    THEN LET decoded == _decode_base64(webhook_data.text)
         IN  IF decoded.raised # "" THEN Did(decoded, Some(TRUE), TRUE)
             ELSE Did(Extract(decoded.value), Some(TRUE), TRUE)
    ELSE Did(Extract(webhook_data), Some(TRUE), FALSE)

(* The try block of process_webhook *)
ProcessBody(webhook_data, x_verify_header) ==
    IF webhook_data.type = "str"
    THEN IF ~VerifyOutcome(webhook_data, x_verify_header).value
         THEN Did(Return(Failure("Invalid webhook signature")), Some(FALSE), FALSE)
         ELSE LET decoded == _decode_base64(webhook_data.text)
              IN  IF decoded.raised # "" THEN Did(decoded, Some(TRUE), TRUE)
                  ELSE Did(Extract(decoded.value), Some(TRUE), TRUE)
    ELSE Did(Extract(webhook_data), None, FALSE)

(* process_webhook with its except clause; the text of the exception is    *)
(* left out of the error message.                                          *)
ProcessOutcome(webhook_data, x_verify_header) ==
    LET body == ProcessBody(webhook_data, x_verify_header)
    IN  IF body.raised \in ExceptionClasses
        THEN [body EXCEPT !.raised = "",
                          !.value = Failure("Error processing webhook")]
        ELSE body

(* The inputs of the webhook operations *)
PaidPayload ==
    Dict(<< <<"state", "SUCCESS">>, <<"transactionId", "T1">> >>)
FailedPayload == Dict(<< <<"state", "FAILURE">> >>)

PayloadTexts ==
    {_encode_base64(PaidPayload),
     _encode_base64(FailedPayload),
     _encode_base64(ListValue),
     <<Chr("x")>>}

WebhookData ==
    {Str(t) : t \in PayloadTexts} \cup {PaidPayload, Dict(<< >>), NoneValue, ListValue}

(* The header the gateway sends for a payload text *)
SignedHeader(text) == Sha256Hex(text \o salt_key) \o Separator \o <<Chr("1")>>

Headers ==
    {Str(SignedHeader(t)) : t \in PayloadTexts}
    \cup {Str(Sha256Hex(t \o salt_key)) : t \in PayloadTexts}
    \cup {Str(SignedHeader(_encode_base64(PaidPayload)) \o Separator \o <<Chr("1")>>),
          Str(Sha256Hex(_encode_base64(PaidPayload) \o salt_key)
              \o <<Chr("#")>> \o Separator \o <<Chr("1")>>),
          Str(Sha256Hex(_encode_base64(PaidPayload) \o salt_key)
              \o Separator \o <<Chr("2")>>),
          Str(Sha256Hex(_encode_base64(PaidPayload) \o other_key)
              \o Separator \o <<Chr("1")>>),
          Str(Separator \o <<Chr("1")>>),
          Str(<< >>),
          NoneValue,
          IntValue}

InitWebhook ==
    /\ consultation = NewConsultation(0, 0)
    /\ reschedule_history = << >>
    /\ now = 0
    /\ AtRest
    /\ NoRows
    /\ NoPhonePeCall

NoConsultationChange ==
    UNCHANGED <<consultation, reschedule_history, now, ret, Observers, Stored>>

verify_webhook_signature(payload, x_verify_header) ==
    LET outcome == VerifyOutcome(payload, x_verify_header)
    IN  /\ phonepe' = [op |-> "verify_webhook_signature",
                       payload |-> payload,
                       x_verify_header |-> x_verify_header,
                       raised |-> outcome.raised,
                       result |-> outcome.value]
        /\ NoConsultationChange

process_webhook(webhook_data, x_verify_header) ==
    LET outcome == ProcessOutcome(webhook_data, x_verify_header)
    IN  /\ phonepe' = [op |-> "process_webhook",
                       webhook_data |-> webhook_data,
                       x_verify_header |-> x_verify_header,
                       raised |-> outcome.raised,
                       result |-> outcome.value,
                       verified |-> outcome.verified,
                       decoded |-> outcome.decoded]
        /\ NoConsultationChange

NextWebhook ==
    \/ \E payload \in WebhookData, h \in Headers : verify_webhook_signature(payload, h)
    \/ \E webhook_data \in WebhookData, h \in Headers : process_webhook(webhook_data, h)

SpecWebhook == InitWebhook /\ [][NextWebhook]_vars

----------------------------------------------------------------------------
(* PhonePeService: the amount conversion int(float(amount) * 100).         *)
(* A python float is an IEEE 754 double: a significand of 53 bits times a  *)
(* power of two. Significands do not fit a machine integer, so they are    *)
(* natural numbers written as sequences of limbs, least significant first. *)

LimbBase == 10000
SignificandBits == 53

(* Powers of two are applied in steps of at most this many bits *)
StepBits == 13

RECURSIVE ToBig(_)
ToBig(n) == IF n = 0 THEN << >> ELSE <<n % LimbBase>> \o ToBig(n \div LimbBase)

RECURSIVE BigValue(_)
BigValue(x) == IF x = << >> THEN 0 ELSE x[1] + LimbBase * BigValue(Tail(x))

(* x * k + carry, for a small k *)
RECURSIVE MulCarry(_, _, _)
MulCarry(x, k, carry) ==
    IF x = << >> THEN ToBig(carry)
    ELSE LET t == x[1] * k + carry
         IN  <<t % LimbBase>> \o MulCarry(Tail(x), k, t \div LimbBase)

MulSmall(x, k) == MulCarry(x, k, 0)

(* Quotient and remainder of x by a small k *)
RECURSIVE DivSmall(_, _)
DivSmall(x, k) ==
    IF x = << >> THEN [q |-> << >>, r |-> 0]
    ELSE LET hi == DivSmall(Tail(x), k)
             t == hi.r * LimbBase + x[1]
         IN  [q |-> IF hi.q = << >> /\ t \div k = 0 THEN << >>
                    ELSE <<t \div k>> \o hi.q,
              r |-> t % k]

RECURSIVE BigLess(_, _)
BigLess(x, y) ==
    IF Len(x) # Len(y) THEN Len(x) < Len(y)
    ELSE IF x = << >> THEN FALSE
    ELSE IF x[Len(x)] # y[Len(y)] THEN x[Len(x)] < y[Len(y)]
    ELSE BigLess(SubSeq(x, 1, Len(x) - 1), SubSeq(y, 1, Len(y) - 1))

IsOdd(x) == x # << >> /\ x[1] % 2 = 1

RECURSIVE Pow2(_)
Pow2(n) == IF n = 0 THEN 1 ELSE 2 * Pow2(n - 1)

RECURSIVE BigPow2(_)
BigPow2(n) ==
    IF n <= StepBits THEN ToBig(Pow2(n))
    ELSE MulSmall(BigPow2(n - StepBits), Pow2(StepBits))

(* The whole part of x / 2^n *)
RECURSIVE ShiftRight(_, _)
ShiftRight(x, n) ==
    IF n <= StepBits THEN DivSmall(x, Pow2(n)).q
    ELSE ShiftRight(DivSmall(x, Pow2(StepBits)).q, n - StepBits)

(* The double m * 2^(-e) *)
Float(m, e) == [m |-> m, e |-> e]

(* Round to nearest, ties to even: quotient q with remainder r of divisor d *)
RoundNearestEven(q, r, d) ==
    IF 2 * r > d \/ (2 * r = d /\ IsOdd(q)) THEN MulCarry(q, 1, 1) ELSE q

(* The smallest scaling n * 2^e of n whose quotient by d has 53 bits *)
RECURSIVE ScaleUp(_, _, _)
ScaleUp(n, d, e) ==
    IF BigLess(DivSmall(MulSmall(n, Pow2(StepBits)), d).q, BigPow2(SignificandBits - 1))
    THEN ScaleUp(MulSmall(n, Pow2(StepBits)), d, e + StepBits)
    ELSE IF BigLess(DivSmall(n, d).q, BigPow2(SignificandBits - 1))
    THEN ScaleUp(MulSmall(n, 2), d, e + 1)
    ELSE [n |-> n, e |-> e]

(* float(amount) for an amount of n/d: the double nearest to it *)
FloatOfRatio(n, d) ==
    IF n = 0 THEN Float(<< >>, 0)
    ELSE LET scaled == ScaleUp(ToBig(n), d, 0)
             parts == DivSmall(scaled.n, d)
         IN  Float(RoundNearestEven(parts.q, parts.r, d), scaled.e)

(* The number of low bits a product has beyond 53 *)
RECURSIVE ExtraBits(_, _)
ExtraBits(x, s) ==
    IF BigLess(DivSmall(x, Pow2(s)).q, BigPow2(SignificandBits)) THEN s
    ELSE ExtraBits(x, s + 1)

(* f * k for a double f and a small whole number k, rounded to a double *)
FloatTimes(f, k) ==
    LET product == MulSmall(f.m, k)
        s == ExtraBits(product, 0)
        parts == DivSmall(product, Pow2(s))
    IN  Float(RoundNearestEven(parts.q, parts.r, Pow2(s)), f.e - s)

(* int(f): the whole part of a double that is not negative *)
IntOfFloat(f) == BigValue(ShiftRight(f.m, f.e))

(* An amount with two decimal places is given by its hundredths *)
PerUnit == 100

(* amount_in_paise = int(float(amount) * 100) *)
amount_in_paise(hundredths) ==
    IntOfFloat(FloatTimes(FloatOfRatio(hundredths, PerUnit), PerUnit))

----------------------------------------------------------------------------
(* PhonePeService: initiate_payment and check_payment_status. The settings *)
(* are the sandbox defaults.                                               *)

merchant_id == "PGTESTPAYUAT86"
salt_index == <<Chr("1")>>
PayEndpoint == <<Chr("/pg/v1/pay")>>
StatusEndpoint == <<Chr("/pg/v1/status")>>

(* A header signed the way the webhook is: without the endpoint *)
_generate_x_verify_header_without_endpoint(payload_string, endpoint) ==
    Sha256Hex(payload_string \o salt_key) \o Separator \o salt_index

_generate_x_verify_header(payload_string, endpoint) ==
    Sha256Hex(payload_string \o endpoint \o salt_key) \o Separator \o salt_index

(* f"TXN{payment_id}{uuid.uuid4().hex[:8].upper()}" *)
PaymentIds == {"P1"}
UuidPrefixes == {"0A1B2C3D", "9F8E7D6C"}

NewTransactionId(payment_id, uuid_prefix) ==
    IF uuid_prefix = "0A1B2C3D" THEN "TXNP10A1B2C3D" ELSE "TXNP19F8E7D6C"

(* The amounts of the payments, in hundredths: 100.00 and 19.99 *)
Amounts == {10000, 1999}

(* The conversion of each of these amounts *)
AmountInPaise == [amount \in Amounts |-> amount_in_paise(amount)]

CustomerInfos ==
    {Dict(<< <<"mobile", "9000000001">> >>),
     Dict(<< <<"mobile", "9000000001">>, <<"email", "a@b.in">> >>)}

(* The payload of initiate_payment; the redirect and callback urls, which  *)
(* come from the settings, are left out. The amount is a number, kept      *)
(* apart from the text fields.                                             *)
PayPayload(transaction_id, paise, customer_info, additional_info) ==
    [fields |->
        Dict(<< <<"merchantId", merchant_id>>,
                <<"merchantTransactionId", transaction_id>>,
                <<"merchantUserId",
                  IF Get(customer_info, "email") # ""
                  THEN Get(customer_info, "email")
                  ELSE Get(customer_info, "mobile")>>,
                <<"redirectMode", "REDIRECT">>,
                <<"mobileNumber", Get(customer_info, "mobile")>>,
                <<"paymentInstrument", "PAY_PAGE">> >>
             \o IF additional_info.type = "dict" /\ additional_info.items # << >>
                THEN << <<"additionalInfo", "additional_info">> >>
                ELSE << >>),
     amount |-> paise]

(* _encode_base64 of that payload: the amount is written in decimal *)
EncodePayPayload(payload) ==
    B64Encode(<<Chr("{")>> \o DumpItems(payload.fields.items)
              \o <<Chr("amount"), Decimal(payload.amount)>> \o <<Chr("}")>>)

StatusPayload(merchant_transaction_id) ==
    Dict(<< <<"merchantId", merchant_id>>,
            <<"merchantTransactionId", merchant_transaction_id>> >>)

(* One requests.post call *)
Request(endpoint, encoded_payload, x_verify, x_merchant_id) ==
    [url |-> endpoint, request |-> encoded_payload,
     x_verify |-> x_verify, x_merchant_id |-> x_merchant_id]

(* The 'data' member of a gateway reply *)
Data(type, keys, url, response) ==
    [type |-> type, keys |-> keys, url |-> url, response |-> response]

NoData == Data("NoneType", {}, None, << >>)
EmptyData == Data("dict", {}, None, << >>)
BareData == Data("dict", {"merchantId"}, None, << >>)
PayData == Data("dict", {"instrumentResponse"}, Some("https://pay"), << >>)
TextData == Data("str", {}, None, << >>)
StatusData(response) == Data("dict", {"response"}, None, response)

TruthyData(data) == (data.type = "dict" /\ data.keys # {}) \/ data.type = "str"

(* What requests.post, raise_for_status and response.json() give: an       *)
(* exception, or the parsed body.                                          *)
GatewayError(e) ==
    [raised |-> e, type |-> "none", success |-> "absent", data |-> NoData,
     message |-> "absent"]

GatewayReply(type, success, data, message) ==
    [raised |-> "", type |-> type, success |-> success, data |-> data,
     message |-> message]

(* The exception classes without Timeout among the request exceptions *)
RequestExceptionClasses_without_timeout ==
    {"ConnectionError", "HTTPError", "requests.JSONDecodeError"}

(* requests.exceptions.RequestException and its subclasses; a body that is *)
(* not JSON raises one of them or a plain ValueError, by requests version. *)
RequestExceptionClasses ==
    {"ConnectionError", "Timeout", "HTTPError", "requests.JSONDecodeError"}

(* What a request can fail with *)
TransportErrors ==
    {"ConnectionError", "Timeout", "HTTPError", "requests.JSONDecodeError",
     "JSONDecodeError"}

Replies ==
    {GatewayError(e) : e \in TransportErrors}
    \cup {GatewayReply("list", "absent", NoData, "absent")}
    \cup {GatewayReply("dict", success, data, message) :
            success \in {"absent", "true", "false"},
            data \in {NoData, EmptyData, BareData, PayData, TextData}
                     \cup {StatusData(t) : t \in PayloadTexts \cup {<< >>}},
            message \in {"absent", "declined"}}

(* Which except clause takes an exception: RequestException first, then    *)
(* Exception, which every class here derives from.                         *)
Handler(e) ==
    IF e \in RequestExceptionClasses THEN "RequestException"
    ELSE IF e \in ExceptionClasses \cup TransportErrors
    THEN "Exception"
    ELSE "none"

GatewayFailure(error, response_data) ==
    [success |-> FALSE, error |-> error, response |-> response_data]

(* The try block of initiate_payment *)
InitiateBody(transaction_id, reply) ==
    IF reply.raised # "" THEN Raise(reply.raised)
    ELSE IF reply.type # "dict" THEN Raise("AttributeError")
    ELSE IF reply.success = "true" /\ TruthyData(reply.data)
    THEN IF reply.data.type # "dict" THEN Raise("AttributeError")
         ELSE Return([success |-> TRUE,
                      payment_url |-> reply.data.url,
                      transaction_id |-> transaction_id,
                      merchant_transaction_id |-> transaction_id,
                      response |-> reply])
    ELSE Return(GatewayFailure(IF reply.message = "absent"
                               THEN "Payment initiation failed"
                               ELSE reply.message,
                               reply))

(* The try block of check_payment_status *)
StatusBody(reply) ==
    IF reply.raised # "" THEN Raise(reply.raised)
    ELSE IF reply.type # "dict" THEN Raise("AttributeError")
    ELSE IF reply.success = "true" /\ TruthyData(reply.data)
    THEN IF reply.data.type # "dict" THEN Raise("AttributeError")
         ELSE IF reply.data.response # << >>
         THEN LET decoded_response == _decode_base64(reply.data.response)
              IN  IF decoded_response.raised # "" THEN decoded_response
                  ELSE IF decoded_response.value.type # "dict"
                  THEN Raise("AttributeError")
                  ELSE Return([success |-> TRUE,
                               status |-> Get(decoded_response.value, "state"),
                               code |-> Get(decoded_response.value, "code"),
                               transaction_id |->
                                   Get(decoded_response.value, "transactionId"),
                               response |-> decoded_response.value,
                               raw_response |-> reply])
         ELSE Return(GatewayFailure("Unable to decode payment status", reply))
    ELSE Return(GatewayFailure("Unable to decode payment status", reply))

(* The except clauses; the text of the exception is left out of the error  *)
(* messages.                                                               *)
Caught(body, other_error) ==
    IF body.raised = "" THEN body
    ELSE IF Handler(body.raised) = "RequestException"
    THEN Return(Failure("Network error"))
    ELSE IF Handler(body.raised) = "Exception"
    THEN Return(Failure(other_error))
    ELSE body

InitGateway ==
    /\ consultation = NewConsultation(0, 0)
    /\ reschedule_history = << >>
    /\ now = 0
    /\ AtRest
    /\ NoRows
    /\ NoPhonePeCall

initiate_payment(payment_id, amount, customer_info, additional_info, uuid_prefix, reply) ==
    LET paise == AmountInPaise[amount]
        transaction_id == NewTransactionId(payment_id, uuid_prefix)
        payload == PayPayload(transaction_id, paise, customer_info, additional_info)
        encoded_payload == EncodePayPayload(payload)
        x_verify == _generate_x_verify_header(encoded_payload, PayEndpoint)
        outcome == Caught(InitiateBody(transaction_id, reply), "Error initiating payment")
    IN  /\ phonepe' = [op |-> "initiate_payment",
                       amount |-> amount,
                       amount_in_paise |-> paise,
                       payload |-> payload,
                       sent |-> <<Request(PayEndpoint, encoded_payload, x_verify, None)>>,
                       reply |-> reply,
                       raised |-> outcome.raised,
                       result |-> outcome.value]
        /\ NoConsultationChange

check_payment_status(merchant_transaction_id, reply) ==
    LET payload == StatusPayload(merchant_transaction_id)
        encoded_payload == _encode_base64(payload)
        x_verify == _generate_x_verify_header(encoded_payload, StatusEndpoint)
        outcome == Caught(StatusBody(reply), "Error checking payment status")
    IN  /\ phonepe' = [op |-> "check_payment_status",
                       payload |-> payload,
                       sent |-> <<Request(StatusEndpoint, encoded_payload, x_verify,
                                          Some(merchant_id))>>,
                       reply |-> reply,
                       raised |-> outcome.raised,
                       result |-> outcome.value]
        /\ NoConsultationChange

NextGateway ==
    \/ \E payment_id \in PaymentIds, amount \in Amounts,
          customer_info \in CustomerInfos, uuid_prefix \in UuidPrefixes,
          reply \in Replies :
          initiate_payment(payment_id, amount, customer_info, NoneValue, uuid_prefix, reply)
    \/ \E payment_id \in PaymentIds, uuid_prefix \in UuidPrefixes, reply \in Replies :
          check_payment_status(NewTransactionId(payment_id, uuid_prefix), reply)

SpecGateway == InitGateway /\ [][NextGateway]_vars

----------------------------------------------------------------------------
(* The operations of the Consultation class on a consultation in any       *)
(* payment state, at any time of the clock.                                *)

PAYMENT_STATUS_CHOICES == {"pending", "paid", "failed", "refunded"}

PaymentMethods == {"", "phonepe"}

Payment(c) ==
    [is_paid |-> c.is_paid,
     payment_method |-> c.payment_method,
     payment_status |-> c.payment_status]

InitPayment ==
    /\ \E paid \in BOOLEAN, method \in PaymentMethods, status \in PAYMENT_STATUS_CHOICES :
          consultation = [NewConsultation(0, 0) EXCEPT !.is_paid = paid,
                                                       !.payment_method = method,
                                                       !.payment_status = status]
    /\ reschedule_history = << >>
    /\ now \in 0..MaxNow
    /\ AtRest
    /\ NoRows
    /\ NoPhonePeCall

NextPayment ==
    \/ \E a \in Staff : check_in_patient(a)
    \/ \E a \in Staff : mark_ready_for_consultation(a)
    \/ start_consultation
    \/ \E a \in Actors, r \in RequestReasons : request_reschedule(a, r)
    \/ \E a \in Staff : approve_reschedule(a)
    \/ \E d \in Dates, t \in Times, r \in ApplyReasons : apply_reschedule(d, t, r)

SpecPayment == InitPayment /\ [][NextPayment]_vars

----------------------------------------------------------------------------
(* Observations used by the properties *)

(* The step is a call of op: every operation records itself in ret and     *)
(* leaves the clock alone, and Tick does the opposite.                     *)
Called(op) == now' = now /\ ret'.op = op

Returned(op, result) == Called(op) /\ ret'.result = result

LastRecord(h) == h[Len(h)]

RescheduleOps == {"request_reschedule", "approve_reschedule", "apply_reschedule"}
TransitionOps == {"check_in_patient", "mark_ready_for_consultation", "start_consultation"}

----------------------------------------------------------------------------
(* C1: every apply_reschedule that returns True comes after an             *)
(* approve_reschedule that returned True, itself after a                   *)
(* request_reschedule that returned True, all three since the previous     *)
(* applied reschedule: the gate request -> approve -> apply is never       *)
(* skipped or collapsed.                                                   *)
C1_GateOrder ==
    [][Returned("apply_reschedule", "True") => g_gate = 2]_vars

C1_Witness ==
    /\ ret.op = "apply_reschedule"
    /\ ret.result = "True"
    /\ g_applied = 2

(* C2: approve_reschedule without a pending request, and apply_reschedule  *)
(* without an approval, raise ValidationError and change no field of the   *)
(* consultation and no row of the history.                                 *)
C2_GateErrors ==
    [][/\ (Called("approve_reschedule") /\ ~consultation.reschedule_requested)
            => /\ ret'.result = "ValidationError"
               /\ consultation' = consultation
               /\ reschedule_history' = reschedule_history
       /\ (Called("apply_reschedule") /\ ~consultation.reschedule_approved)
            => /\ ret'.result = "ValidationError"
               /\ consultation' = consultation
               /\ reschedule_history' = reschedule_history]_vars

C2_Witness ==
    /\ ret.op = "apply_reschedule"
    /\ ret.result = "ValidationError"
    /\ consultation.reschedule_requested
    /\ ~consultation.reschedule_approved

(* C3: after apply_reschedule(new_date, new_time, reason) returned True,   *)
(* the new history row holds the date and time the consultation had        *)
(* before the call, the consultation holds the supplied date and time,     *)
(* both flags are false, both their timestamps are None, the reason is     *)
(* empty, rescheduled_at is now and the status is 'rescheduled'.           *)
C3_ApplyEffect ==
    [][Returned("apply_reschedule", "True") =>
        /\ Len(reschedule_history') = Len(reschedule_history) + 1
        /\ LastRecord(reschedule_history').old_date = consultation.scheduled_date
        /\ LastRecord(reschedule_history').old_time = consultation.scheduled_time
        /\ consultation'.scheduled_date = ret'.date
        /\ consultation'.scheduled_time = ret'.time
        /\ ~consultation'.reschedule_requested
        /\ ~consultation'.reschedule_approved
        /\ consultation'.reschedule_requested_at = None
        /\ consultation'.reschedule_approved_at = None
        /\ consultation'.reschedule_reason = ""
        /\ consultation'.rescheduled_at = Some(now)
        /\ consultation'.status = "rescheduled"]_vars

C3_Witness ==
    /\ ret.op = "apply_reschedule"
    /\ ret.result = "True"
    /\ Len(reschedule_history) >= 1
    /\ LastRecord(reschedule_history).old_date = 0
    /\ LastRecord(reschedule_history).old_time = 0
    /\ consultation.scheduled_date = 1
    /\ consultation.scheduled_time = 0

(* C4: request_reschedule on a consultation that is not eligible raises    *)
(* and changes nothing; on an eligible one it returns True, sets the       *)
(* requested flag, its timestamp, actor and reason, and sets the status    *)
(* to 'overdue' whatever the status was.                                   *)
C4_RequestEffect ==
    [][Called("request_reschedule") =>
        IF is_eligible_for_reschedule(consultation, now)
        THEN /\ ret'.result = "True"
             /\ consultation' = [consultation EXCEPT
                                    !.reschedule_requested = TRUE,
                                    !.reschedule_requested_at = Some(now),
                                    !.reschedule_requested_by = ret'.by,
                                    !.reschedule_reason = ret'.reason,
                                    !.status = "overdue"]
             /\ reschedule_history' = reschedule_history
        ELSE /\ ret'.result = "ValidationError"
             /\ consultation' = consultation
             /\ reschedule_history' = reschedule_history]_vars

C4_Witness ==
    /\ ret.op = "request_reschedule"
    /\ ret.result = "True"
    /\ ret.was = "in_progress"
    /\ consultation.status = "overdue"

(* C5: once the status is cancelled, no_show or completed, none of         *)
(* check_in, mark_ready, start, request_reschedule, approve_reschedule     *)
(* and apply_reschedule changes it.                                        *)
C5_TerminalStays ==
    [][(/\ consultation.status \in TerminalStatuses
        /\ \E op \in TransitionOps \cup RescheduleOps : Called(op))
            => consultation'.status = consultation.status]_vars

(* C6: the history has as many rows as apply_reschedule calls returned     *)
(* True; only such a call adds a row, it adds exactly one, and no step     *)
(* changes or removes a row that exists.                                   *)
C6_HistoryAppendOnly ==
    /\ Len(reschedule_history) = g_applied
    /\ [][/\ Len(reschedule_history') = g_applied'
          /\ Len(reschedule_history') >= Len(reschedule_history)
          /\ SubSeq(reschedule_history', 1, Len(reschedule_history)) = reschedule_history
          /\ IF Returned("apply_reschedule", "True")
             THEN Len(reschedule_history') = Len(reschedule_history) + 1
             ELSE reschedule_history' = reschedule_history]_vars

C6_Witness ==
    /\ Len(reschedule_history) = 2
    /\ ret.op = "request_reschedule"
    /\ ret.result = "True"

(* C7: the history row of an applied reschedule names the actor of the     *)
(* request the approval was given for.                                     *)
C7_OriginalRequester ==
    [][Returned("apply_reschedule", "True")
        => LastRecord(reschedule_history').requested_by = g_approved_for]_vars

(* C8: apply_reschedule is all or nothing: either the consultation is      *)
(* rescheduled and a history row is added, or neither changes.             *)
C8_ApplyAtomic ==
    [][Called("apply_reschedule") =>
        \/ /\ consultation' = consultation
           /\ reschedule_history' = reschedule_history
        \/ /\ consultation'.status = "rescheduled"
           /\ consultation'.scheduled_date = ret'.date
           /\ consultation'.scheduled_time = ret'.time
           /\ ~consultation'.reschedule_requested
           /\ ~consultation'.reschedule_approved
           /\ Len(reschedule_history') = Len(reschedule_history) + 1]_vars

(* C9: check_in on a 'scheduled' consultation returns True and sets the    *)
(* status to 'patient_checked_in', checked_in_at to now and checked_in_by  *)
(* to the actor; in every other status it returns False and changes        *)
(* nothing.                                                                *)
C9_CheckIn ==
    [][Called("check_in_patient") =>
        IF consultation.status = "scheduled"
        THEN /\ ret'.result = "True"
             /\ consultation' = [consultation EXCEPT
                                    !.status = "patient_checked_in",
                                    !.checked_in_at = Some(now),
                                    !.checked_in_by = ret'.by]
        ELSE /\ ret'.result = "False"
             /\ consultation' = consultation]_vars

C9_Witness ==
    /\ ret.op = "check_in_patient"
    /\ ret.result = "False"
    /\ consultation.status = "overdue"
    /\ consultation.checked_in_at = None

(* C10: mark_ready returns True exactly from 'scheduled' and               *)
(* 'patient_checked_in', then setting the status to                        *)
(* 'ready_for_consultation', ready_for_consultation_at to now and          *)
(* ready_marked_by to the actor; from every other status it returns False  *)
(* and changes nothing.                                                    *)
C10_MarkReady ==
    [][Called("mark_ready_for_consultation") =>
        IF consultation.status \in {"scheduled", "patient_checked_in"}
        THEN /\ ret'.result = "True"
             /\ consultation' = [consultation EXCEPT
                                    !.status = "ready_for_consultation",
                                    !.ready_for_consultation_at = Some(now),
                                    !.ready_marked_by = ret'.by]
        ELSE /\ ret'.result = "False"
             /\ consultation' = consultation]_vars

C10_Witness ==
    /\ ret.op = "mark_ready_for_consultation"
    /\ ret.result = "True"
    /\ ret.was = "scheduled"
    /\ consultation.checked_in_at = None

(* C11: start returns True exactly from 'ready_for_consultation' and       *)
(* 'patient_checked_in', then setting the status to 'in_progress' and      *)
(* actual_start_time to now; from every other status it returns False and  *)
(* changes nothing, and no other step makes the status 'in_progress'.      *)
C11_Start ==
    [][/\ Called("start_consultation") =>
            IF consultation.status \in {"ready_for_consultation", "patient_checked_in"}
            THEN /\ ret'.result = "True"
                 /\ consultation' = [consultation EXCEPT
                                        !.status = "in_progress",
                                        !.actual_start_time = Some(now)]
            ELSE /\ ret'.result = "False"
                 /\ consultation' = consultation
       /\ (consultation'.status = "in_progress" /\ consultation.status # "in_progress")
            => /\ Returned("start_consultation", "True")
               /\ consultation.status \in {"ready_for_consultation", "patient_checked_in"}]_vars

C11_Witness ==
    /\ ret.op = "start_consultation"
    /\ ret.result = "False"
    /\ consultation.status = "rescheduled"
    /\ consultation.actual_start_time = None

DerivedMatchTable(c) ==
    /\ is_checked_in(c) <=>
         \/ c.status = "patient_checked_in"
         \/ c.status = "ready_for_consultation"
         \/ c.status = "in_progress"
         \/ c.status = "completed"
    /\ is_ready_for_consultation(c) <=>
         \/ c.status = "ready_for_consultation"
         \/ c.status = "in_progress"
         \/ c.status = "completed"
    /\ is_ready_for_consultation(c) => is_checked_in(c)
    /\ c.status \in STATUS_CHOICES

C13_DerivedFlags ==
    /\ DerivedMatchTable(consultation)
    /\ [][/\ DerivedMatchTable(consultation')
          /\ (Returned("request_reschedule", "True") /\ is_checked_in(consultation))
                => /\ ~is_checked_in(consultation')
                   /\ ~is_ready_for_consultation(consultation')]_vars

C13_Witness ==
    /\ ret.op = "request_reschedule"
    /\ ret.result = "True"
    /\ ret.was = "ready_for_consultation"
    /\ consultation.status = "overdue"
    /\ ~is_checked_in(consultation)
    /\ consultation.ready_for_consultation_at # None

(* How late the consultation is, in clock units (negative: in the future) *)
Lateness == now - scheduled_datetime(consultation)

MoreThanHours(q, h) == q.num > h * q.den

C16_OverdueUpcoming ==
    LET past == /\ consultation.status \notin {"completed", "cancelled", "rescheduled"}
                /\ Lateness > 0
    IN  /\ ret.op = "is_overdue" => (ret.value = Some(TRUE) <=> past)
        /\ ret.op = "hours_overdue" =>
              ret.value = IF past THEN Some(Hours(Lateness, HourUnits))
                                  ELSE Some(Hours(0, 1))
        /\ ret.op = "is_upcoming" =>
              (ret.value = Some(TRUE) <=>
                  (consultation.status = "scheduled" /\ Lateness < 0))
        /\ ~(is_upcoming(consultation, now) /\ is_overdue(consultation, now))

C16_Witness ==
    /\ ret.op = "hours_overdue"
    /\ ret.value = Some(Hours(2 * HourUnits, HourUnits))
    /\ consultation.status = "no_show"

(* The numeric suffixes of the stored CON identifiers *)
ConSuffixes(ids) ==
    {int(AfterPrefix(i)) : i \in {j \in ids : startswith(j, CON)}}

MaxConNumber(ids) ==
    IF ConSuffixes(ids) = {} THEN 0
    ELSE CHOOSE n \in {x[1] : x \in ConSuffixes(ids)} :
             \A x \in ConSuffixes(ids) : x[1] <= n

GeneratesConsultationId == saved'.model = "Consultation" /\ saved'.generated

GeneratesReceiptNumber == saved'.model = "ConsultationReceipt" /\ saved'.generated

(* C17: a generated consultation id is 'CON' + the zero-padded (highest    *)
(* numeric suffix of the stored CON ids + 1): CON008 after CON007, CON001  *)
(* with no CON id stored, also when the last stored id is not a CON id.    *)
(* Stated for stores whose CON ids all have a numeric suffix.              *)
C17_NextAfterMaximum ==
    [][(GeneratesConsultationId /\ None \notin ConSuffixes(consultation_ids)) =>
          saved'.id = FormatConsultationId(MaxConNumber(consultation_ids) + 1)]_vars

(* C18: generation never fails on a stored identifier whose suffix is not  *)
(* numeric: for consultations and for receipts, numbering restarts at 1.   *)
C18_RestartsAtOne ==
    [][/\ ( /\ GeneratesConsultationId
            /\ consultation_ids # {}
            /\ startswith(LastByOrder(consultation_ids), CON)
            /\ int(AfterPrefix(LastByOrder(consultation_ids))) = None )
          => ( /\ saved'.result # "ValueError"
               /\ saved'.id = FormatConsultationId(1) )
       /\ ( /\ GeneratesReceiptNumber
            /\ receipt_numbers # << >>
            /\ int(AfterPrefix(receipt_numbers[Len(receipt_numbers)])) = None )
          => ( /\ saved'.result # "ValueError"
               /\ saved'.id = FormatReceiptNumber(1) )]_vars

(* The header is a string of the form digest ### rest, where digest is the *)
(* hex SHA-256 of payload + salt key and rest holds no further separator.  *)
ValidSignature(payload, header) ==
    /\ payload.type = "str"
    /\ header.type = "str"
    /\ \E i \in 1..Len(header.text) :
          /\ SubSeq(header.text, 1, i - 1) = Sha256Hex(payload.text \o salt_key)
          /\ SubSeq(header.text, i, i + 2) = Separator
          /\ Occurrences(SubSeq(header.text, i + 3, Len(header.text)), Separator) = {}

(* C19: verify_webhook_signature returns true exactly when the header      *)
(* splits on '###' into two parts of which the first is the hex SHA-256 of *)
(* payload + salt key; it returns false, and does not raise, for a header  *)
(* without '###', with more than one '###', signed for another payload,    *)
(* missing or not a string.                                                *)
C19_VerifySignature ==
    phonepe.op = "verify_webhook_signature" =>
        LET payload == phonepe.payload
            header == phonepe.x_verify_header
        IN  /\ phonepe.raised = ""
            /\ phonepe.result \in BOOLEAN
            /\ phonepe.result <=> ValidSignature(payload, header)
            /\ header.type # "str" => ~phonepe.result
            /\ (header.type = "str" /\ Occurrences(header.text, Separator) = {})
                  => ~phonepe.result
            /\ (header.type = "str" /\ Len(Split(header.text, Separator)) > 2)
                  => ~phonepe.result
            /\ \A t \in PayloadTexts :
                  (header = Str(SignedHeader(t)) /\ payload # Str(t)) => ~phonepe.result

C19_Witness ==
    /\ phonepe.op = "verify_webhook_signature"
    /\ phonepe.result = TRUE
    /\ phonepe.payload = Str(_encode_base64(PaidPayload))
    /\ phonepe.x_verify_header = Str(SignedHeader(_encode_base64(PaidPayload)))

(* C20: process_webhook on a raw string whose signature does not verify    *)
(* returns the failure 'Invalid webhook signature' without decoding the    *)
(* payload; it returns success for a raw string only after the signature   *)
(* was accepted; it never raises.                                          *)
C20_ProcessWebhook ==
    phonepe.op = "process_webhook" =>
        LET data == phonepe.webhook_data
            header == phonepe.x_verify_header
        IN  /\ phonepe.raised = ""
            /\ phonepe.result.success \in BOOLEAN
            /\ (data.type = "str" /\ ~ValidSignature(data, header)) =>
                  /\ phonepe.result = Failure("Invalid webhook signature")
                  /\ ~phonepe.decoded
            /\ (data.type = "str" /\ phonepe.result.success) =>
                  /\ phonepe.verified = Some(TRUE)
                  /\ ValidSignature(data, header)
            /\ ~phonepe.result.success =>
                  phonepe.result \in {Failure("Invalid webhook signature"),
                                      Failure("Error processing webhook")}

C20_Witness ==
    /\ phonepe.op = "process_webhook"
    /\ phonepe.webhook_data = Str(_encode_base64(PaidPayload))
    /\ phonepe.x_verify_header.type = "str"
    /\ phonepe.result.success
    /\ phonepe.result.status = "SUCCESS"
    /\ phonepe.decoded

(* The value a structured payload holds under a key, '' without the key *)
Field(data, key) ==
    IF data = PaidPayload /\ key = "state" THEN "SUCCESS"
    ELSE IF data = PaidPayload /\ key = "transactionId" THEN "T1"
    ELSE ""

(* C21: process_webhook on an already structured payload does not check    *)
(* the signature: it succeeds with the payload's fields transactionId,     *)
(* merchantTransactionId, state, code and responseCode, whatever the       *)
(* header is, an invalid or absent one included.                           *)
C21_StructuredSkipsVerification ==
    (phonepe.op = "process_webhook" /\ phonepe.webhook_data.type = "dict") =>
        LET data == phonepe.webhook_data
        IN  /\ phonepe.verified = None
            /\ ~phonepe.decoded
            /\ phonepe.raised = ""
            /\ phonepe.result =
                  [success |-> TRUE,
                   transaction_id |-> Field(data, "transactionId"),
                   merchant_transaction_id |-> Field(data, "merchantTransactionId"),
                   status |-> Field(data, "state"),
                   code |-> Field(data, "code"),
                   response_code |-> Field(data, "responseCode"),
                   response |-> data]

C21_Witness ==
    /\ phonepe.op = "process_webhook"
    /\ phonepe.webhook_data = PaidPayload
    /\ phonepe.x_verify_header = NoneValue
    /\ phonepe.result.success
    /\ phonepe.result.transaction_id = "T1"

GatewayOps == {"initiate_payment", "check_payment_status"}

(* The gateway answered, with a body that says success and holds data *)
RepliedSuccessWithData ==
    /\ phonepe.reply.raised = ""
    /\ phonepe.reply.type = "dict"
    /\ phonepe.reply.success = "true"
    /\ phonepe.reply.data \notin {NoData, EmptyData}

C23_RequestSignature ==
    phonepe.op \in GatewayOps =>
        \A i \in 1..Len(phonepe.sent) :
            LET sent == phonepe.sent[i]
                path == IF phonepe.op = "initiate_payment"
                        THEN <<Chr("/pg/v1/pay")>> ELSE <<Chr("/pg/v1/status")>>
            IN  /\ sent.url = path
                /\ sent.x_verify =
                      Sha256Hex(sent.request \o path \o salt_key)
                      \o <<Chr("#"), Chr("#"), Chr("#")>> \o <<Chr("1")>>

C23_Witness ==
    /\ phonepe.op = "initiate_payment"
    /\ Len(phonepe.sent) = 1
    /\ phonepe.sent[1].request = EncodePayPayload(phonepe.payload)
    /\ Split(phonepe.sent[1].x_verify, Separator)[2] = salt_index
    /\ phonepe.result.success

(* C24: initiate_payment sends round(amount * 100) as the amount in minor  *)
(* units: 10000 for 100.00, and no minor unit is lost for any amount with  *)
(* two decimal places (1999 for 19.99).                                    *)
C24_AmountInMinorUnits ==
    phonepe.op = "initiate_payment" =>
        /\ phonepe.amount_in_paise = phonepe.amount
        /\ phonepe.payload.amount = phonepe.amount

(* The operations of the Consultation class *)
ConsultationOps == TransitionOps \cup RescheduleOps

(* C25: reschedule_approved implies reschedule_requested in every state:   *)
(* approve_reschedule sets the approval only while a request is pending,   *)
(* and apply_reschedule clears both flags together.                        *)
C25_ApprovedImpliesRequested ==
    /\ [](consultation.reschedule_approved => consultation.reschedule_requested)
    /\ [][/\ Returned("approve_reschedule", "True") => consultation.reschedule_requested
          /\ (consultation.reschedule_approved /\ ~consultation'.reschedule_approved)
                => ( /\ Called("apply_reschedule")
                     /\ ~consultation'.reschedule_requested )
          /\ (consultation.reschedule_requested /\ ~consultation'.reschedule_requested)
                => ( /\ Called("apply_reschedule")
                     /\ ~consultation'.reschedule_approved )]_vars

C25_Witness ==
    /\ ret.op = "apply_reschedule"
    /\ ret.result = "True"
    /\ ~consultation.reschedule_requested
    /\ ~consultation.reschedule_approved
    /\ Len(reschedule_history) = 1

HeldBack == {"overdue", "rescheduled"}

(* C27: once the status is 'overdue' or 'rescheduled', check_in,           *)
(* mark_ready and start return False and the operations of the             *)
(* consultation keep the status within these two; a consultation that was  *)
(* ever rescheduled is not in patient_checked_in, ready_for_consultation   *)
(* or in_progress.                                                         *)
C27_HeldBack ==
    /\ [](consultation.rescheduled_at # None =>
            consultation.status \notin
                {"patient_checked_in", "ready_for_consultation", "in_progress"})
    /\ [][(consultation.status \in HeldBack /\ \E op \in ConsultationOps : Called(op)) =>
            /\ consultation'.status \in HeldBack
            /\ ret'.op \in TransitionOps =>
                  (ret'.result = "False" /\ consultation' = consultation)]_vars

C27_Witness ==
    /\ ret.op = "start_consultation"
    /\ ret.result = "False"
    /\ consultation.status = "rescheduled"
    /\ consultation.checked_in_at # None

(* C28: no operation sets the status back to 'scheduled'; check_in         *)
(* succeeds at most once, and checked_in_at, ready_for_consultation_at and *)
(* actual_start_time are each written at most once.                        *)
C28_WrittenOnce ==
    [][/\ consultation'.status = "scheduled" => consultation.status = "scheduled"
       /\ Returned("check_in_patient", "True") => consultation.checked_in_at = None
       /\ consultation.checked_in_at # None =>
             consultation'.checked_in_at = consultation.checked_in_at
       /\ consultation.ready_for_consultation_at # None =>
             consultation'.ready_for_consultation_at = consultation.ready_for_consultation_at
       /\ consultation.actual_start_time # None =>
             consultation'.actual_start_time = consultation.actual_start_time]_vars

C28_Witness ==
    /\ consultation.status = "overdue"
    /\ consultation.checked_in_at = Some(0)
    /\ consultation.ready_for_consultation_at # None
    /\ consultation.actual_start_time # None
    /\ ret.op = "check_in_patient"
    /\ ret.result = "False"

(* C29: a consultation created as 'scheduled' and changed only by its      *)
(* operations has checked_in_at set in status 'patient_checked_in',        *)
(* ready_for_consultation_at set in 'ready_for_consultation' and           *)
(* actual_start_time set in 'in_progress'.                                 *)
C29_StatusHasTimestamp ==
    /\ consultation.status = "patient_checked_in" => consultation.checked_in_at # None
    /\ consultation.status = "ready_for_consultation" =>
          consultation.ready_for_consultation_at # None
    /\ consultation.status = "in_progress" => consultation.actual_start_time # None

C29_Witness ==
    /\ consultation.status = "in_progress"
    /\ consultation.actual_start_time # None
    /\ consultation.ready_for_consultation_at # None
    /\ consultation.checked_in_at = None

(* C26: an approval covers only the request it was given for:              *)
(* apply_reschedule returns True only if an approve_reschedule returned    *)
(* True after the most recent request_reschedule that returned True.       *)
C26_ApprovalIsForLastRequest ==
    [][Returned("apply_reschedule", "True") => g_fresh]_vars

(* C30: every generated consultation id is fresh: whatever ids are stored, *)
(* the id given to a new consultation differs from all of them, so the     *)
(* save inserts a row and never writes over one.                           *)
C30_GeneratedIdIsFresh ==
    [][GeneratesConsultationId =>
          /\ saved'.id \notin consultation_ids
          /\ saved'.result = "inserted"]_vars

(* C31: check_in, mark_ready, start, request_reschedule, approve_reschedule *)
(* and apply_reschedule neither read nor change is_paid, payment_status    *)
(* and payment_method: every step leaves the three fields as they were,    *)
(* and whether a call succeeds is decided by the status, the schedule and  *)
(* the reschedule flags alone; start succeeds from                         *)
(* 'ready_for_consultation' and 'patient_checked_in' in every payment      *)
(* state.                                                                  *)
C31_PaymentUntouched ==
    [][/\ Payment(consultation') = Payment(consultation)
       /\ Called("start_consultation") =>
             (ret'.result = "True" <=>
                 consultation.status \in {"ready_for_consultation", "patient_checked_in"})
       /\ Called("check_in_patient") =>
             (ret'.result = "True" <=> consultation.status = "scheduled")
       /\ Called("mark_ready_for_consultation") =>
             (ret'.result = "True" <=>
                 consultation.status \in {"scheduled", "patient_checked_in"})
       /\ Called("request_reschedule") =>
             (ret'.result = "True" <=>
                 ( /\ consultation.status \notin {"completed", "cancelled"}
                   /\ now - scheduled_datetime(consultation) > HourUnits ))
       /\ Called("approve_reschedule") =>
             (ret'.result = "True" <=> consultation.reschedule_requested)
       /\ Called("apply_reschedule") =>
             (ret'.result \in {"True", "IntegrityError"}
                 <=> consultation.reschedule_approved)]_vars

C31_Witness ==
    /\ ret.op = "start_consultation"
    /\ ret.result = "True"
    /\ consultation.status = "in_progress"
    /\ ~consultation.is_paid
    /\ consultation.payment_status = "failed"

====
